---- MODULE Spec2Model ----
(***************************************************************************)
(* Model of grit/format/resource_map.py: the resource-map name derivation  *)
(* (GetMapName) and the lazy source formatter (_FormatSource).             *)
(*                                                                         *)
(* A Python str is a sequence of strings whose concatenation is the text.  *)
(* File names and input paths are sequences of one-character strings, so   *)
(* that find / slicing / replace are computed as the code computes them;   *)
(* resource names and the literal pieces of the templates are one element  *)
(* each.  Paths use the POSIX separator.                                   *)
(***************************************************************************)
EXTENDS Integers, Sequences, FiniteSets, TLC

\* ---------------------------------------------------------------- bounds
MaxItems == 2
MaxFileLen == 4

\* ------------------------------------------------------- string helpers
LowerCase ==
  <<"a","b","c","d","e","f","g","h","i","j","k","l","m",
    "n","o","p","q","r","s","t","u","v","w","x","y","z">>

UpperCase ==
  <<"A","B","C","D","E","F","G","H","I","J","K","L","M",
    "N","O","P","Q","R","S","T","U","V","W","X","Y","Z">>

\* a str.upper() that leaves the character as it is
Upper_Identity(c) == c

\* str.upper() on a one-character string
Upper(c) ==
  IF \E i \in 1..Len(LowerCase) : LowerCase[i] = c
  THEN UpperCase[CHOOSE i \in 1..Len(LowerCase) : LowerCase[i] = c]
  ELSE c

Min(a, b) == IF a < b THEN a ELSE b

\* s[a:b] and s[a:] with Python's 0-based, clamped bounds (a, b >= 0)
Slice(s, a, b) == SubSeq(s, a + 1, Min(b, Len(s)))

SliceFrom(s, a) == SubSeq(s, a + 1, Len(s))

\* s.find(c): 0-based position of the first c, -1 when absent
Find(s, c) ==
  IF \E i \in 1..Len(s) : s[i] = c
  THEN (CHOOSE i \in 1..Len(s) : s[i] = c /\ \A j \in 1..(i - 1) : s[j] # c) - 1
  ELSE -1

\* s.rfind(c): 0-based position of the last c, -1 when absent
RFind(s, c) ==
  IF \E i \in 1..Len(s) : s[i] = c
  THEN (CHOOSE i \in 1..Len(s) : s[i] = c /\ \A j \in (i + 1)..Len(s) : s[j] # c) - 1
  ELSE -1

\* os.path.split(p)[1]: what follows the last '/'
PathTail(p) == SliceFrom(p, RFind(p, "/") + 1)

\* os.path.splitext(p)[0] for p without a separator: cut at the last '.',
\* unless only dots precede it
SplitExtRoot(p) ==
  LET dotIndex == RFind(p, ".") IN
  IF dotIndex > -1 /\ \E i \in 1..dotIndex : p[i] # "."
  THEN Slice(p, 0, dotIndex)
  ELSE p

\* ------------------------------------------------------------ GetMapName
NoExc == "none"
NoHeaderExc == "Exception: unable to find resource header filename"
SourceExc ==
  "Exception: resource_map_source output type requires resource_map_header and rc_header outputs"
IndexExc == "IndexError: string index out of range"

Returned(v) == [exc |-> NoExc, val |-> v]

Raised(e) == [exc |-> e, val |-> <<>>]

\* the value a 'for output in outputs: if t == output.GetType(): f = ...'
\* loop leaves in f: the filename of the last output of type t; 0 is None
LastOfType(outs, t) ==
  IF \E i \in 1..Len(outs) : outs[i].type = t
  THEN CHOOSE i \in 1..Len(outs) :
         outs[i].type = t /\ \A j \in (i + 1)..Len(outs) : outs[j].type # t
  ELSE 0

\* the text '%s' puts in for f: 'None' for None
FileOf(outs, i) == IF i = 0 THEN <<"None">> ELSE outs[i].filename

\* 'not f' for f = None or f = ''
Falsy(outs, i) == i = 0 \/ outs[i].filename = <<>>

\* the 'while True' loop of GetMapName
RECURSIVE CamelLoop(_)
CamelLoop(filename) ==
  LET pos == Find(filename, "_") IN
  IF pos = -1 \/ pos >= Len(filename) THEN Returned(filename)
  ELSE IF pos + 1 >= Len(filename) THEN Raised(IndexExc)
  ELSE CamelLoop(Slice(filename, 0, pos) \o <<Upper(filename[pos + 2])>>
                 \o SliceFrom(filename, pos + 2))

GetMapName(outs) ==
  LET rc == LastOfType(outs, "rc_header") IN
  IF Falsy(outs, rc) THEN Raised(NoHeaderExc)
  ELSE LET filename == SplitExtRoot(PathTail(FileOf(outs, rc))) IN
       IF Len(filename) = 0 THEN Raised(IndexExc)
       ELSE LET r == CamelLoop(<<Upper(filename[1])>> \o SliceFrom(filename, 1)) IN
            IF r.exc # NoExc THEN r ELSE Returned(<<"k">> \o r.val)


\* ----------------------------------------------------------- templates
HeaderBanner == "// This file is automatically generated by GRIT.  Do not edit.\n\n"

\* the template of _FormatSourceHeader, filled in
SourceHeaderText(map_header_file, rc_header_file, map_name) ==
  <<HeaderBanner, "#include \"">> \o map_header_file
  \o <<"\"\n\n#include <stddef.h>\n\n#include \"base/macros.h\"\n\n#include \"">>
  \o rc_header_file
  \o <<"\"\n\nconst GritResourceMap ">> \o map_name \o <<"[] = {\n">>

\* the template of _FormatSourceFooter, filled in
SourceFooterText(map_name) ==
  <<"};\n\nconst size_t ">> \o map_name \o <<"Size = arraysize(">>
  \o map_name \o <<");\n">>

\* the row with its two arguments exchanged
FormatRow_Swapped(key, tid) == <<"  {\"">> \o tid \o <<"\", ">> \o key \o <<"},\n">>

\* '  {"%s", %s},\n' % (key, tid)
FormatRow(key, tid) == <<"  {\"">> \o key \o <<"\", ">> \o tid \o <<"},\n">>

\* the check with 'and' in place of 'or'
MissingOutputs_And(outs) ==
  /\ Falsy(outs, LastOfType(outs, "rc_header"))
  /\ Falsy(outs, LastOfType(outs, "resource_map_header"))

\* 'not rc_header_file or not map_header_file'
MissingOutputs(outs) ==
  \/ Falsy(outs, LastOfType(outs, "rc_header"))
  \/ Falsy(outs, LastOfType(outs, "resource_map_header"))

_FormatSourceHeader(outs) ==
  LET rc == LastOfType(outs, "rc_header")
      mp == LastOfType(outs, "resource_map_header") IN
  IF MissingOutputs(outs) THEN Raised(SourceExc)
  ELSE LET n == GetMapName(outs) IN
       IF n.exc # NoExc THEN n
       ELSE Returned(SourceHeaderText(FileOf(outs, mp), FileOf(outs, rc), n.val))

_FormatSourceFooter(outs) ==
  LET n == GetMapName(outs) IN
  IF n.exc # NoExc THEN n ELSE Returned(SourceFooterText(n.val))

\* ------------------------------------------------------- key strategies
_GetItemName(item) == item.name

\* item.GetInputPath().replace("\\", "/")
_GetItemPath(item) ==
  [i \in 1..Len(item.path) |-> IF item.path[i] = "\\" THEN "/" ELSE item.path[i]]

\* the strategy GetFormatter binds with partial()
GetKey(type, item) ==
  IF type = "resource_map_source" THEN _GetItemName(item) ELSE _GetItemPath(item)

\* ------------------------------------------------------ the input space
IDS_A == <<"IDS_A">>
IDS_GREETING == <<"IDS_GREETING">>
Names == {IDS_A, IDS_GREETING}

\* the numeric IDs of the examples
IdOf == [n \in Names |-> IF n = IDS_A THEN 5 ELSE 101]

\* rc_header.GetIds(root): textual id -> numeric id
TidTables == {[n \in S |-> IdOf[n]] : S \in {Names, {IDS_A}}}

P_back == <<"a", "\\", "b">>
P_fwd == <<"a", "/", "b">>
P_other == <<"c">>

NamePaths ==
  {<<IDS_A, P_back>>, <<IDS_A, P_other>>, <<IDS_GREETING, P_fwd>>,
   <<IDS_GREETING, P_other>>}

\* isSource: IsResourceMapSource(); active: membership in ActiveDescendants();
\* kind: which GeneratesResourceMapEntry the node class carries
Profiles ==
  {[isSource |-> TRUE, active |-> TRUE, kind |-> "all_or_active"],
   [isSource |-> TRUE, active |-> FALSE, kind |-> "all_or_active"],
   [isSource |-> TRUE, active |-> FALSE, kind |-> "active_only"],
   [isSource |-> FALSE, active |-> TRUE, kind |-> "all_or_active"]}

ItemSet ==
  {[name |-> np[1], path |-> np[2], isSource |-> pr.isSource,
    active |-> pr.active, kind |-> pr.kind] : np \in NamePaths, pr \in Profiles}

ItemLists == UNION {[1..n -> ItemSet] : n \in 0..MaxItems}

F_rc == <<"f","o","o","_","b","a","r",".","h">>
F_map == <<"f","o","o","_","b","a","r","_","m","a","p",".","h">>
F_rc_dir == <<"g","r","i","t","/","t","h","e","m","e","_","r","e","s",".","h">>
F_trailing == <<"f","o","o","_",".","h">>
F_pak == <<"x",".","p","a","k">>

Output(t, f) == [type |-> t, filename |-> f]

OutputLists ==
  {<<Output("rc_header", F_rc), Output("resource_map_header", F_map)>>,
   <<Output("rc_header", F_rc), Output("data_package", F_pak)>>,
   <<Output("resource_map_header", F_map)>>,
   <<Output("rc_header", F_rc), Output("resource_map_header", F_map),
     Output("rc_header", F_rc_dir)>>,
   <<Output("resource_map_header", F_map), Output("rc_header", F_trailing)>>}

SourceTypes == {"resource_map_source", "resource_file_map_source"}

\* ------------------------------------------------ the formatting pass
VARIABLES outputs, items, tids, output_all, type, pc, idx, seen, out, src, err,
          rc_header_file, map_name

vars ==
  <<outputs, items, tids, output_all, type, pc, idx, seen, out, src, err,
    rc_header_file, map_name>>

\* what a pass only reads; rc_header_file and map_name belong to SpecName
root == <<outputs, items, tids, output_all, type, rc_header_file, map_name>>

NotCalled == [exc |-> "not called", val |-> <<>>]

Init ==
  /\ outputs \in OutputLists
  /\ items \in ItemLists
  /\ tids \in TidTables
  /\ output_all \in BOOLEAN
  /\ type \in SourceTypes
  /\ pc = "start"
  /\ idx = 0
  /\ seen = {}
  /\ out = <<>>
  /\ src = <<>>
  /\ err = NoExc
  /\ rc_header_file = <<>>
  /\ map_name = NotCalled

\* root.ActiveDescendants(), as positions of the iteration 'for item in root'
ActiveDescendants == {i \in 1..Len(items) : items[i].active}

\* item.GeneratesResourceMapEntry(output_all_resource_defines, is_active)
GeneratesResourceMapEntry(item, all_defines, is_active) ==
  IF item.kind = "all_or_active" THEN all_defines \/ is_active ELSE is_active

\* 'if not item.IsResourceMapSource(): continue'
NotSource(i) == ~items[i].isSource

\* the skip without 'key in seen'
NoIdOrSeen_NoSeen(i) == items[i].name \notin DOMAIN tids

\* the skip without 'tid not in tids'
NoIdOrSeen_NoId(i) == GetKey(type, items[i]) \in seen

\* 'if tid not in tids or key in seen: continue'
NoIdOrSeen(i) ==
  items[i].name \notin DOMAIN tids \/ GetKey(type, items[i]) \in seen

\* the condition of the last 'if' of the loop body
Generates(i) ==
  GeneratesResourceMapEntry(items[i], output_all, i \in ActiveDescendants)

\* first next(): 'yield _FormatSourceHeader(root)'
YieldHeader ==
  /\ pc = "start"
  /\ _FormatSourceHeader(outputs).exc = NoExc
  /\ out' = <<_FormatSourceHeader(outputs).val>>
  /\ pc' = "loop"
  /\ idx' = 1
  /\ seen' = {}
  /\ UNCHANGED <<root, src, err>>

\* first next() when _FormatSourceHeader raises: the generator is finished
RaiseHeader ==
  /\ pc = "start"
  /\ _FormatSourceHeader(outputs).exc # NoExc
  /\ err' = _FormatSourceHeader(outputs).exc
  /\ pc' = "failed"
  /\ UNCHANGED <<root, idx, seen, out, src>>

InLoop == pc = "loop" /\ idx \in 1..Len(items)

SkipNotSource ==
  /\ InLoop
  /\ NotSource(idx)
  /\ idx' = idx + 1
  /\ UNCHANGED <<root, pc, seen, out, src, err>>

SkipNoIdOrSeen ==
  /\ InLoop
  /\ ~NotSource(idx)
  /\ NoIdOrSeen(idx)
  /\ idx' = idx + 1
  /\ UNCHANGED <<root, pc, seen, out, src, err>>

\* 'seen.add(key)' moved before the GeneratesResourceMapEntry test
SkipNotGenerated_Marks ==
  /\ InLoop
  /\ ~NotSource(idx)
  /\ ~NoIdOrSeen(idx)
  /\ ~Generates(idx)
  /\ seen' = seen \cup {GetKey(type, items[idx])}
  /\ idx' = idx + 1
  /\ UNCHANGED <<root, pc, out, src, err>>

SkipNotGenerated ==
  /\ InLoop
  /\ ~NotSource(idx)
  /\ ~NoIdOrSeen(idx)
  /\ ~Generates(idx)
  /\ idx' = idx + 1
  /\ UNCHANGED <<root, pc, seen, out, src, err>>

\* the row is yielded but 'seen.add(key)' is left out
YieldRow_NoMark ==
  /\ InLoop
  /\ ~NotSource(idx)
  /\ ~NoIdOrSeen(idx)
  /\ Generates(idx)
  /\ seen' = seen
  /\ out' = Append(out, FormatRow(GetKey(type, items[idx]), items[idx].name))
  /\ src' = Append(src, idx)
  /\ idx' = idx + 1
  /\ UNCHANGED <<root, pc, err>>

\* the row is put in front of the rows yielded before it
YieldRow_Front ==
  /\ InLoop
  /\ ~NotSource(idx)
  /\ ~NoIdOrSeen(idx)
  /\ Generates(idx)
  /\ seen' = seen \cup {GetKey(type, items[idx])}
  /\ out' = <<out[1], FormatRow(GetKey(type, items[idx]), items[idx].name)>>
             \o Tail(out)
  /\ src' = <<idx>> \o src
  /\ idx' = idx + 1
  /\ UNCHANGED <<root, pc, err>>

\* 'seen.add(key); yield ...'
YieldRow ==
  /\ InLoop
  /\ ~NotSource(idx)
  /\ ~NoIdOrSeen(idx)
  /\ Generates(idx)
  /\ seen' = seen \cup {GetKey(type, items[idx])}
  /\ out' = Append(out, FormatRow(GetKey(type, items[idx]), items[idx].name))
  /\ src' = Append(src, idx)
  /\ idx' = idx + 1
  /\ UNCHANGED <<root, pc, err>>

\* 'yield _FormatSourceFooter(root)' once the loop is exhausted
YieldFooter ==
  /\ pc = "loop"
  /\ idx > Len(items)
  /\ LET f == _FormatSourceFooter(outputs) IN
     IF f.exc = NoExc
     THEN out' = Append(out, f.val) /\ pc' = "footer" /\ err' = err
     ELSE out' = out /\ pc' = "failed" /\ err' = f.exc
  /\ UNCHANGED <<root, idx, seen, src>>

\* the next() after the footer: StopIteration
Finish ==
  /\ pc = "footer"
  /\ pc' = "done"
  /\ UNCHANGED <<root, idx, seen, out, src, err>>

Next ==
  \/ YieldHeader
  \/ RaiseHeader
  \/ SkipNotSource
  \/ SkipNoIdOrSeen
  \/ SkipNotGenerated
  \/ YieldRow
  \/ YieldFooter
  \/ Finish

Spec == Init /\ [][Next]_vars

\* ------------------------------------------- GetMapName on its own
NameChars == {"a", "b", "_", ".", "/"}

FileNames == UNION {[1..n -> NameChars] : n \in 1..MaxFileLen}

InitName ==
  /\ rc_header_file \in FileNames
  /\ map_name = NotCalled
  /\ outputs = <<>>
  /\ items = <<>>
  /\ tids = << >>
  /\ output_all = FALSE
  /\ type = "resource_map_header"
  /\ pc = "idle"
  /\ idx = 0
  /\ seen = {}
  /\ out = <<>>
  /\ src = <<>>
  /\ err = NoExc

CallGetMapName ==
  /\ map_name = NotCalled
  /\ pc = "idle"
  /\ map_name' = GetMapName(<<Output("rc_header", rc_header_file)>>)
  /\ UNCHANGED <<outputs, items, tids, output_all, type, pc, idx, seen, out,
                 src, err, rc_header_file>>

NextName == CallGetMapName

SpecName == InitName /\ [][NextName]_vars


\* ================================================================ claims
KeyAt(i) == GetKey(type, items[i])

\* the positions whose rows have been yielded
Emitted == {src[k] : k \in 1..Len(src)}

\* the item passes every filter of the loop body
Eligible(i) ==
  /\ items[i].isSource
  /\ items[i].name \in DOMAIN tids
  /\ GeneratesResourceMapEntry(items[i], output_all, items[i].active)

HasOutput(t) == \E i \in 1..Len(outputs) : outputs[i].type = t

RowText(key, token) == <<"  {\"">> \o key \o <<"\", ">> \o token \o <<"},\n">>

\* C1 (as claimed): every row fragment is '  {"<key>", <id>},\n' with <id>
\* the numeric ID the ID table holds for the item's name.
C1_RowHasNumericId ==
  \A k \in 1..Len(src) :
    out[k + 1] = RowText(KeyAt(src[k]), <<ToString(tids[items[src[k]].name])>>)

\* C1 (amended): every row fragment is '  {"<key>", <name>},\n' with <name>
\* the item's name attribute, a key of the ID table; the item named
\* IDS_GREETING yields '  {"IDS_GREETING", IDS_GREETING},\n' under ByName.
C1_RowHasName ==
  \A k \in 1..Len(src) :
    /\ items[src[k]].name \in DOMAIN tids
    /\ out[k + 1] = RowText(KeyAt(src[k]), items[src[k]].name)
    /\ (type = "resource_map_source" /\ items[src[k]].name = IDS_GREETING)
         => out[k + 1] = <<"  {\"", "IDS_GREETING", "\", ", "IDS_GREETING", "},\n">>

C1_Witness ==
  /\ \E k \in 1..Len(src) :
       items[src[k]].name = IDS_GREETING /\ tids[IDS_GREETING] = 101
  /\ type = "resource_map_source"

C1_WitnessPath ==
  /\ \E k \in 1..Len(src) : KeyAt(src[k]) = P_fwd /\ items[src[k]].path = P_back
  /\ type = "resource_file_map_source"

\* C2: at every point of a pass the rows emitted so far hold at most one
\* row per distinct key of the configured key function.
C2_OneRowPerKey ==
  \A j, k \in 1..Len(src) :
    j # k => /\ KeyAt(src[j]) # KeyAt(src[k])
             /\ out[j + 1] # out[k + 1]
             /\ out[j + 1] = RowText(KeyAt(src[j]), items[src[j]].name)

C2_Witness ==
  /\ pc = "done"
  /\ Len(src) = 1
  /\ \E i, j \in 1..Len(items) :
       i < j /\ KeyAt(i) = KeyAt(j) /\ Eligible(i) /\ Eligible(j)

\* C3 (as claimed): when several items share a key, the row of the
\* first-encountered one is emitted and every later one is dropped.
C3_FirstEncounteredWins ==
  pc = "done" =>
    \A i, j \in 1..Len(items) :
      (i < j /\ KeyAt(i) = KeyAt(j) /\ \A h \in 1..(i - 1) : KeyAt(h) # KeyAt(i))
        => i \in Emitted /\ j \notin Emitted

\* C3 (amended): when several items share a key, the row emitted for that
\* key is the row of the first one that passes all filters; every other item
\* with that key is dropped, and no error is raised.
C3_FirstEligibleWins ==
  pc = "done" =>
    /\ err = NoExc
    /\ \A i \in 1..Len(items) :
         i \in Emitted <=>
           (Eligible(i) /\ \A h \in 1..(i - 1) : KeyAt(h) = KeyAt(i) => ~Eligible(h))

C3_Witness ==
  /\ pc = "done"
  /\ \E i, j \in 1..Len(items) :
       /\ i < j /\ KeyAt(i) = KeyAt(j) /\ items[i].name # items[j].name
       /\ Eligible(i) /\ Eligible(j)
       /\ i \in Emitted /\ j \notin Emitted

FooterYielded ==
  /\ pc = "done"
  /\ err = NoExc
  /\ Len(out) = Len(src) + 2
  /\ out[Len(out)] = SourceFooterText(GetMapName(outputs).val)

\* C4: no row is ever yielded for an item whose name is not a key of the ID
\* table; going past such an item raises nothing, the pass stays in the loop
\* over the following items, and it ends having yielded the footer.
C4_NoIdNoRow ==
  /\ \A k \in 1..Len(src) : items[src[k]].name \in DOMAIN tids
  /\ \A i \in 1..(idx - 1) :
       (items[i].isSource /\ items[i].name \notin DOMAIN tids)
         => /\ i \notin Emitted
            /\ err = NoExc
            /\ pc \in {"loop", "footer", "done"}
            /\ pc = "loop" => idx \in 2..(Len(items) + 1)
            /\ pc = "done" => FooterYielded

C4_Witness ==
  /\ FooterYielded
  /\ \E i, j \in 1..Len(items) :
       i < j /\ items[i].isSource /\ items[i].name \notin DOMAIN tids /\ j \in Emitted

\* C5: the rows are yielded in the tree's iteration order: the row sequence
\* is an order-preserving subsequence of the item sequence.
C5_RowsInTreeOrder ==
  /\ Len(out) >= Len(src)
  /\ \A j, k \in 1..Len(src) :
       j < k => /\ src[j] < src[k]
                /\ out[j + 1] = RowText(KeyAt(src[j]), items[src[j]].name)
                /\ out[k + 1] = RowText(KeyAt(src[k]), items[src[k]].name)

C5_Witness == Len(src) = 2 /\ src[1] < src[2] /\ out[2] # out[3]

\* C6: when the outputs lack an rc_header or a resource_map_header, the pass
\* fails with the resource_map_source error before any fragment is yielded.
C6_MissingOutputFails ==
  (~HasOutput("rc_header") \/ ~HasOutput("resource_map_header")) =>
    /\ out = <<>>
    /\ pc \in {"start", "failed"}
    /\ pc = "failed" => err = SourceExc

C6_Witness ==
  /\ HasOutput("rc_header")
  /\ ~HasOutput("resource_map_header")
  /\ pc = "failed"
  /\ err = SourceExc
  /\ Len(items) > 0

\* "directory and extension stripped"
BaseName(f) == SplitExtRoot(PathTail(f))

\* one pass over s: every '_' deleted, the character after it uppercased
RECURSIVE CamelPass(_, _)
CamelPass(s, up) ==
  IF s = <<>> THEN <<>>
  ELSE IF Head(s) = "_" THEN CamelPass(Tail(s), TRUE)
  ELSE <<IF up THEN Upper(Head(s)) ELSE Head(s)>> \o CamelPass(Tail(s), FALSE)

\* C7: for every rc_header filename with a non-empty base name, GetMapName
\* returns 'k' + the base name camel-cased, which contains no '_'; base names
\* with consecutive or trailing underscores included.
C7_MapNameCamelCased ==
  (map_name # NotCalled /\ BaseName(rc_header_file) # <<>>) =>
    /\ map_name.exc = NoExc
    /\ map_name.val = <<"k">> \o CamelPass(BaseName(rc_header_file), TRUE)
    /\ \A i \in 1..Len(map_name.val) : map_name.val[i] # "_"

\* the code agrees with C7 wherever the base name does not end in '_'
C7_HoldsWithoutTrailingUnderscore ==
  (/\ map_name # NotCalled
   /\ BaseName(rc_header_file) # <<>>
   /\ BaseName(rc_header_file)[Len(BaseName(rc_header_file))] # "_") =>
    /\ map_name.exc = NoExc
    /\ map_name.val = <<"k">> \o CamelPass(BaseName(rc_header_file), TRUE)
    /\ \A i \in 1..Len(map_name.val) : map_name.val[i] # "_"

\* the inputs of the end-to-end scenario
E2E_Scenario ==
  /\ outputs = <<Output("rc_header", F_rc), Output("resource_map_header", F_map)>>
  /\ type = "resource_map_source"
  /\ Len(items) = 1
  /\ items[1].name = IDS_A
  /\ items[1].isSource /\ items[1].active
  /\ IDS_A \in DOMAIN tids /\ tids[IDS_A] = 5

E2E_Output(map_name_text, id_token) ==
  << <<HeaderBanner, "#include \"">> \o F_map
       \o <<"\"\n\n#include <stddef.h>\n\n#include \"base/macros.h\"\n\n#include \"">>
       \o F_rc \o <<"\"\n\nconst GritResourceMap ">> \o map_name_text
       \o <<"[] = {\n">>,
     <<"  {\"", "IDS_A", "\", ", id_token, "},\n">>,
     <<"};\n\nconst size_t ">> \o map_name_text \o <<"Size = arraysize(">>
       \o map_name_text \o <<");\n">> >>

kFooBarMap == <<"k","F","o","o","B","a","r","M","a","p">>
kFooBar == <<"k","F","o","o","B","a","r">>

C9_HeaderRowsFooter ==
  (HasOutput("rc_header") /\ HasOutput("resource_map_header")
   /\ pc \in {"done", "failed"}) =>
    /\ pc = "done"
    /\ Len(out) = Len(src) + 2
    /\ \E n \in {GetMapName(outputs).val} :
         /\ out[1] = SourceHeaderText(FileOf(outputs, LastOfType(outputs, "resource_map_header")),
                                      FileOf(outputs, LastOfType(outputs, "rc_header")), n)
         /\ out[Len(out)] = SourceFooterText(n)
    /\ \A k \in 1..Len(src) :
         out[k + 1] = RowText(KeyAt(src[k]), items[src[k]].name)

\* the shape holds in every pass whose GetMapName returns
C9_HoldsWhenMapNameReturns ==
  GetMapName(outputs).exc = NoExc => C9_HeaderRowsFooter

\* C10: the seen-key set is exactly the set of keys of the rows emitted so
\* far; a skipped item never marks its key, so the first later item with the
\* same key that passes all filters gets its row.
C10_SeenIsEmittedKeys ==
  /\ seen = {KeyAt(i) : i \in Emitted}
  /\ pc = "done" =>
       \A i \in 1..Len(items) :
         (Eligible(i) /\ \A h \in 1..(i - 1) : KeyAt(h) = KeyAt(i) => ~Eligible(h))
           => i \in Emitted

C10_Witness ==
  /\ pc = "done"
  /\ \E i, j \in 1..Len(items) :
       /\ i < j /\ KeyAt(i) = KeyAt(j)
       /\ items[i].isSource /\ items[i].name \in DOMAIN tids /\ ~Eligible(i)
       /\ j \in Emitted

====
